---- MODULE Spec2Model ----
(***************************************************************************)
(* The CSV-to-graph ingestion pipeline of data_parser.py                   *)
(* (DGraphCSVLoader.load_data and the nine file loaders it calls), with    *)
(* the graph service behind client.txn() / txn.mutate / txn.commit /       *)
(* txn.discard as an environment that may reject any mutate or commit.     *)
(*                                                                         *)
(* A CSV file is its number of rows; the fields of a row are drawn when    *)
(* iterrows() yields it.  The natural key of the i-th row of an entity     *)
(* file is i (natural keys are unique within their source).                *)
(*                                                                         *)
(* Spec is one call of load_data on any data directory.  SpecShell is the  *)
(* menu loop of client.py over a data directory that is given in advance   *)
(* and stays the same from one "Create data" to the next.                  *)
(***************************************************************************)
EXTENDS Integers, Sequences, FiniteSets, TLC

\* Rows in all the files of one run together.
MaxRows == 4

\* Endpoint keys a referencing row may name (author_id, post_id, follower_id, ...).
MaxKey == 2

Keys == 1..MaxKey

\* Times "Create data" is chosen in one session of the shell.
MaxRuns == 2

\* Mutant: the posts are loaded before the users.
FilesPostsFirst ==
    << "post", "communities", "user", "hashtags", "comments",
       "user_follows", "community_members", "post_hashtags", "post_likes" >>

\* The files in the order load_data names them.
Files ==
    << "user", "communities", "post", "hashtags", "comments",
       "user_follows", "community_members", "post_hashtags", "post_likes" >>

EntityFiles == { "user", "communities", "post", "hashtags", "comments" }

RelationshipFiles ==
    { "user_follows", "community_members", "post_hashtags", "post_likes" }

NoMap == << >>

Has(m, k) == k \in DOMAIN m

Put(m, k, v) == [ x \in (DOMAIN m) \cup {k} |-> IF x = k THEN v ELSE m[x] ]

Range(m) == { m[k] : k \in DOMAIN m }

(***************************************************************************)
(* The location cell of a user row as pandas hands it over: na (empty      *)
(* cell), a non-string (a column of bare numbers is read as floats), or a  *)
(* string, given by its comma-separated components, each TRUE when         *)
(* float() accepts it.                                                     *)
(***************************************************************************)
Loc(na, str, parts) == [ na |-> na, str |-> str, parts |-> parts ]

NoLoc == Loc(TRUE, FALSE, << >>)

Locations ==
    { NoLoc,
      Loc(FALSE, FALSE, << >>),
      Loc(FALSE, TRUE, << TRUE, TRUE >>),
      Loc(FALSE, TRUE, << TRUE >>),
      Loc(FALSE, TRUE, << TRUE, FALSE >>),
      Loc(FALSE, TRUE, << TRUE, TRUE, TRUE >>) }

\* lat, lon = map(float, row['location'].split(',')): the exception it raises, or "ok".
ParseLocation(loc) ==
    IF ~loc.str THEN "AttributeError"
    ELSE IF \E k \in 1..Len(loc.parts) : k <= 3 /\ ~loc.parts[k] THEN "ValueError"
    ELSE IF Len(loc.parts) # 2 THEN "ValueError"
    ELSE "ok"

\* A row: a, b are the keys it references (0: none), num says whether its
\* required numeric fields parse, loc is its location cell.
Row(a, b, num, loc) == [ a |-> a, b |-> b, num |-> num, loc |-> loc ]

NoRow == Row(0, 0, TRUE, NoLoc)

UserRows == { Row(0, 0, n, l) : n \in BOOLEAN, l \in Locations }

PlainRows == { Row(0, 0, n, NoLoc) : n \in BOOLEAN }

PostRows == { Row(a, 0, n, NoLoc) : a \in Keys, n \in BOOLEAN }

CommentRows == { Row(a, b, n, NoLoc) : a \in Keys, b \in Keys, n \in BOOLEAN }

EdgeRows == { Row(a, b, TRUE, NoLoc) : a \in Keys, b \in Keys }

\* The object handed to txn.mutate(set_obj=...): a node to create (uid = 0,
\* the service assigns one) or an edge pred from the node uid to target.
Node(type, loc, author, post) ==
    [ type |-> type, uid |-> 0, loc |-> loc, author |-> author, post |-> post,
      pred |-> "", target |-> 0 ]

Edge(owner, pred, target) ==
    [ type |-> "", uid |-> owner, loc |-> FALSE, author |-> 0, post |-> 0,
      pred |-> pred, target |-> target ]

NoData == Edge(0, "", 0)

VARIABLES
    pc,                 \* where load_data stands
    file,               \* index in Files of the file being loaded
    nrows,              \* len(df) of that file
    i,                  \* the row iterrows() is at
    row,                \* that row
    uid_map,            \* the loader's local uid_map
    user_uid_map, community_uid_map, post_uid_map, hashtag_uid_map, comments_map,
    data,               \* the argument of _create_mutation
    txn,                \* the transaction of _create_mutation
    assigned,           \* what txn.mutate returned: the uids it assigned
    exc,                \* the exception in flight, "" when none
    nextUid,            \* graph service: the next uid it hands out
    graph,              \* graph service: the committed objects
    quota,              \* rows the remaining files may still hold
    steps,              \* history: the transaction calls made for the current row
    sent,               \* history: the set_obj of each mutate call of the current row
    outcome,            \* history: how the service answered the current row's transaction
    created,            \* history: key -> uid of the rows of this file whose node was committed
    started,            \* history: the files whose load was called, in order
    returned,           \* history: the files whose load returned, in order
    unread,             \* history: the files read_csv could not read
    proc,               \* where client.py stands
    option,             \* main's option, 0 before the choice is read
    tape,               \* the data directory when given in advance, else NoDir
    faulty,             \* whether the graph service may reject a call
    runs,               \* calls of model.create_data so far
    requests,           \* history: node-creation requests of this load_data
    prev                \* history: what the load_data before this one left behind

vars ==
    << pc, file, nrows, i, row, uid_map, user_uid_map, community_uid_map,
       post_uid_map, hashtag_uid_map, comments_map, data, txn, assigned, exc,
       nextUid, graph, quota, steps, sent, outcome, created, started, returned,
       unread, proc, option, tape, faulty, runs, requests, prev >>

maps ==
    << user_uid_map, community_uid_map, post_uid_map, hashtag_uid_map, comments_map >>

service == << nextUid, graph >>

call == << data, txn, assigned, steps, sent, outcome, created >>

history == << started, returned, unread >>

shell == << proc, option, tape, faulty, runs, prev >>

\* No directory given in advance: the fields of a row are drawn when it is read.
NoDir == << >>

NoPrev == [ nodes |-> {}, uids |-> {}, requests |-> -1 ]

Current == Files[file]

\* DGraphCSVLoader.__init__, and load_data about to call _load_users.
Init ==
    /\ proc = "create_data"
    /\ option = 1
    /\ tape = NoDir
    /\ faulty = TRUE
    /\ runs = 1
    /\ requests = 0
    /\ prev = NoPrev
    /\ pc = "read"
    /\ file = 1
    /\ nrows = 0
    /\ i = 1
    /\ row = NoRow
    /\ uid_map = NoMap
    /\ user_uid_map = NoMap
    /\ community_uid_map = NoMap
    /\ post_uid_map = NoMap
    /\ hashtag_uid_map = NoMap
    /\ comments_map = NoMap
    /\ data = NoData
    /\ txn = "none"
    /\ assigned = << >>
    /\ exc = ""
    /\ nextUid = 1
    /\ graph = {}
    /\ quota = MaxRows
    /\ steps = << >>
    /\ sent = << >>
    /\ outcome = ""
    /\ created = NoMap
    /\ started = << >>
    /\ returned = << >>
    /\ unread = {}

(***************************************************************************)
(* Control transfers shared by the loaders.                                *)
(***************************************************************************)

\* `continue`, or the end of the loop body: on to the next row.
NextRow ==
    /\ i' = i + 1
    /\ pc' = "loop"

\* Mutant: load_data's except logs the exception and does not re-raise it.
RaiseSwallowed(e) ==
    /\ exc' = e
    /\ pc' = "done"
    /\ UNCHANGED i

\* An exception e leaves the loader: load_data's except logs it and re-raises.
Raise(e) ==
    /\ exc' = e
    /\ pc' = "raised"
    /\ UNCHANGED i

\* The loader calls self._create_mutation(d).
CreateMutation(d) ==
    /\ data' = d
    /\ pc' = "txn"
    /\ UNCHANGED << i, exc >>

\* A row that ends before any call of _create_mutation.
SkipRow ==
    /\ NextRow
    /\ UNCHANGED << data, exc >>

\* What every loop iteration starts with: iterrows() yields row r.
Yield(r) ==
    /\ row' = r
    /\ steps' = << >>
    /\ sent' = << >>
    /\ outcome' = ""
    /\ UNCHANGED << file, nrows, uid_map, maps, txn, assigned, created, service, quota,
                    history, shell, requests >>

\* What every step after the return of _create_mutation leaves alone.
AfterFrame ==
    UNCHANGED << file, nrows, row, maps, call, service, quota, history, shell, requests >>

(***************************************************************************)
(* df = pd.read_csv(file_path), the first statement of every loader.       *)
(***************************************************************************)
\* Whether the file of the loader can be read, and the len(df) it may have.
Readable == IF tape = NoDir THEN BOOLEAN ELSE { tape[file].readable }

Sizes == IF tape = NoDir THEN 0..quota ELSE { Len(tape[file].rows) }

\* The rows iterrows() may yield at position i: any row of the loader's
\* kind, or the row the given directory holds there.
Draw(S) == IF tape = NoDir THEN S ELSE { tape[file].rows[i] }

\* Mutant: a file that cannot be read counts as a file without rows.
read_csv_empty_on_error ==
    /\ pc = "read"
    /\ started' = Append(started, Current)
    /\ \/ /\ FALSE \in Readable
          /\ unread' = unread \cup { Current }
          /\ nrows' = 0
          /\ i' = 1
          /\ pc' = "loop"
          /\ UNCHANGED << exc, quota >>
       \/ \E n \in Sizes :
             /\ TRUE \in Readable
             /\ nrows' = n
             /\ quota' = IF tape = NoDir THEN quota - n ELSE quota
             /\ i' = 1
             /\ pc' = "loop"
             /\ UNCHANGED << exc, unread >>
    /\ UNCHANGED << file, row, uid_map, maps, call, service, returned, shell, requests >>

read_csv ==
    /\ pc = "read"
    /\ started' = Append(started, Current)
    /\ \/ /\ FALSE \in Readable
          /\ Raise("IOError")
          /\ unread' = unread \cup { Current }
          /\ UNCHANGED << nrows, quota >>
       \/ \E n \in Sizes :
             /\ TRUE \in Readable
             /\ nrows' = n
             /\ quota' = IF tape = NoDir THEN quota - n ELSE quota
             /\ i' = 1
             /\ pc' = "loop"
             /\ UNCHANGED << exc, unread >>
    /\ UNCHANGED << file, row, uid_map, maps, call, service, returned, shell, requests >>

(***************************************************************************)
(* _create_mutation: txn = client.txn(); try: mutate, commit, return       *)
(* assigned; finally: txn.discard().                                       *)
(***************************************************************************)
TxnFrame ==
    UNCHANGED << file, nrows, i, row, uid_map, maps, data, quota, history, shell >>

create_mutation_begin ==
    /\ pc = "txn"
    /\ txn' = "open"
    /\ steps' = Append(steps, "begin")
    /\ pc' = "mutate"
    /\ UNCHANGED << assigned, exc, sent, outcome, created, service, requests >>
    /\ TxnFrame

\* Mutant: the service upserts, a node equal to a stored one keeps that uid.
AssignedUidsUpsert(d) ==
    IF d.uid # 0 THEN << >>
    ELSE IF \E n \in graph : [ n EXCEPT !.uid = 0 ] = d
            THEN << (CHOOSE n \in graph : [ n EXCEPT !.uid = 0 ] = d).uid >>
            ELSE << nextUid >>

\* The uids the service assigns to a set_obj: one to a new node, none to an
\* edge between nodes that exist.
AssignedUids(d) == IF d.uid = 0 THEN << nextUid >> ELSE << >>

\* Mutant: no try/finally, a rejected mutate leaves the transaction undiscarded.
txn_mutate_no_finally ==
    /\ pc = "mutate"
    /\ steps' = Append(steps, "mutate")
    /\ sent' = Append(sent, data)
    /\ requests' = IF data.uid = 0 THEN requests + 1 ELSE requests
    /\ \/ /\ faulty
          /\ exc' = "ServiceError"
          /\ txn' = "failed"
          /\ outcome' = "rejected"
          /\ pc' = "after"
          /\ UNCHANGED << assigned, service >>
       \/ /\ assigned' = AssignedUids(data)
          /\ nextUid' = nextUid + Len(AssignedUids(data))
          /\ txn' = "mutated"
          /\ pc' = "commit"
          /\ UNCHANGED << exc, graph, outcome >>
    /\ UNCHANGED created
    /\ TxnFrame

txn_mutate ==
    /\ pc = "mutate"
    /\ steps' = Append(steps, "mutate")
    /\ sent' = Append(sent, data)
    /\ requests' = IF data.uid = 0 THEN requests + 1 ELSE requests
    /\ \/ /\ faulty
          /\ exc' = "ServiceError"
          /\ txn' = "failed"
          /\ outcome' = "rejected"
          /\ pc' = "discard"
          /\ UNCHANGED << assigned, service >>
       \/ /\ assigned' = AssignedUids(data)
          /\ nextUid' = nextUid + Len(AssignedUids(data))
          /\ txn' = "mutated"
          /\ pc' = "commit"
          /\ UNCHANGED << exc, graph, outcome >>
    /\ UNCHANGED created
    /\ TxnFrame

\* The object as the graph holds it once committed.
Stored(d, uids) == IF d.uid = 0 THEN [ d EXCEPT !.uid = uids[1] ] ELSE d

\* Mutant: a rejected commit is swallowed and assigned is returned all the same.
txn_commit_swallowed ==
    /\ pc = "commit"
    /\ steps' = Append(steps, "commit")
    /\ \/ /\ faulty
          /\ txn' = "failed"
          /\ outcome' = "rejected"
          /\ UNCHANGED << exc, graph, created >>
       \/ /\ graph' = graph \cup { Stored(data, assigned) }
          /\ txn' = "committed"
          /\ outcome' = "committed"
          /\ created' = IF data.uid = 0 THEN Put(created, i, assigned[1]) ELSE created
          /\ UNCHANGED exc
    /\ pc' = "discard"
    /\ UNCHANGED << assigned, nextUid, sent, requests >>
    /\ TxnFrame

txn_commit ==
    /\ pc = "commit"
    /\ steps' = Append(steps, "commit")
    /\ \/ /\ faulty
          /\ exc' = "ServiceError"
          /\ txn' = "failed"
          /\ outcome' = "rejected"
          /\ UNCHANGED << graph, created >>
       \/ /\ graph' = graph \cup { Stored(data, assigned) }
          /\ txn' = "committed"
          /\ outcome' = "committed"
          /\ created' = IF data.uid = 0 THEN Put(created, i, assigned[1]) ELSE created
          /\ UNCHANGED exc
    /\ pc' = "discard"
    /\ UNCHANGED << assigned, nextUid, sent, requests >>
    /\ TxnFrame

\* finally: txn.discard(); then the return of assigned, or the exception goes on.
txn_discard ==
    /\ pc = "discard"
    /\ steps' = Append(steps, "discard")
    /\ txn' = "none"
    /\ assigned' = IF exc = "" THEN assigned ELSE << >>
    /\ pc' = "after"
    /\ UNCHANGED << exc, sent, outcome, created, service, requests >>
    /\ TxnFrame

(***************************************************************************)
(* The entity loaders.  L_row is the loop body up to the call of           *)
(* _create_mutation, L_after the rest of it.                               *)
(***************************************************************************)

\* The user_data of a row: location only when the cell is present and parses.
UserData(r) ==
    Node("User", ~r.loc.na /\ ParseLocation(r.loc) = "ok", 0, 0)

load_users_row ==
    /\ pc = "loop"
    /\ Current = "user"
    /\ i <= nrows
    /\ \E r \in Draw(UserRows) :
          /\ Yield(r)
          /\ IF ~r.num
                THEN SkipRow
                ELSE IF ~r.loc.na /\ ParseLocation(r.loc) = "AttributeError"
                        THEN SkipRow
                        ELSE CreateMutation(UserData(r))

\* Mutant: no except around the call, the exception leaves the loader.
load_users_after_uncaught ==
    /\ pc = "after"
    /\ Current = "user"
    /\ IF exc # ""
          THEN Raise(exc) /\ UNCHANGED uid_map
          ELSE /\ uid_map' = IF assigned # << >> THEN Put(uid_map, i, assigned[1]) ELSE uid_map
               /\ NextRow
               /\ UNCHANGED exc
    /\ AfterFrame

load_users_after ==
    /\ pc = "after"
    /\ Current = "user"
    /\ exc' = ""
    /\ uid_map' =
          IF exc = "" /\ assigned # << >>
             THEN Put(uid_map, i, assigned[1])
             ELSE uid_map
    /\ NextRow
    /\ AfterFrame

load_communities_row ==
    /\ pc = "loop"
    /\ Current = "communities"
    /\ i <= nrows
    /\ \E r \in Draw(PlainRows) :
          /\ Yield(r)
          /\ IF ~r.num
                THEN Raise("ValueError") /\ UNCHANGED data
                ELSE CreateMutation(Node("Community", FALSE, 0, 0))

load_communities_after ==
    /\ pc = "after"
    /\ Current = "communities"
    /\ IF exc # ""
          THEN Raise(exc) /\ UNCHANGED uid_map
          ELSE IF assigned = << >>
                  THEN Raise("IndexError") /\ UNCHANGED uid_map
                  ELSE /\ uid_map' = Put(uid_map, i, assigned[1])
                       /\ NextRow
                       /\ UNCHANGED exc
    /\ AfterFrame

\* Mutant: the numeric fields are converted before the author is looked up.
load_posts_row_parse_first ==
    /\ pc = "loop"
    /\ Current = "post"
    /\ i <= nrows
    /\ \E r \in Draw(PostRows) :
          /\ Yield(r)
          /\ IF ~r.num
                THEN Raise("ValueError") /\ UNCHANGED data
                ELSE IF ~Has(user_uid_map, r.a)
                        THEN SkipRow
                        ELSE CreateMutation(Node("Post", FALSE, user_uid_map[r.a], 0))

load_posts_row ==
    /\ pc = "loop"
    /\ Current = "post"
    /\ i <= nrows
    /\ \E r \in Draw(PostRows) :
          /\ Yield(r)
          /\ IF ~Has(user_uid_map, r.a)
                THEN SkipRow
                ELSE IF ~r.num
                        THEN Raise("ValueError") /\ UNCHANGED data
                        ELSE CreateMutation(Node("Post", FALSE, user_uid_map[r.a], 0))

\* Mutant: the uid is stored under the row's author_id, not its post_id.
load_posts_after_author_key ==
    /\ pc = "after"
    /\ Current = "post"
    /\ exc' = ""
    /\ uid_map' =
          IF exc = "" /\ assigned # << >>
             THEN Put(uid_map, row.a, assigned[1])
             ELSE uid_map
    /\ NextRow
    /\ AfterFrame

load_posts_after ==
    /\ pc = "after"
    /\ Current = "post"
    /\ exc' = ""
    /\ uid_map' =
          IF exc = "" /\ assigned # << >>
             THEN Put(uid_map, i, assigned[1])
             ELSE uid_map
    /\ NextRow
    /\ AfterFrame

load_hashtags_row ==
    /\ pc = "loop"
    /\ Current = "hashtags"
    /\ i <= nrows
    /\ \E r \in Draw(PlainRows) :
          /\ Yield(r)
          /\ IF ~r.num
                THEN Raise("ValueError") /\ UNCHANGED data
                ELSE CreateMutation(Node("Hashtag", FALSE, 0, 0))

load_hashtags_after ==
    /\ pc = "after"
    /\ Current = "hashtags"
    /\ IF exc # ""
          THEN Raise(exc) /\ UNCHANGED uid_map
          ELSE IF assigned = << >>
                  THEN Raise("IndexError") /\ UNCHANGED uid_map
                  ELSE /\ uid_map' = Put(uid_map, i, assigned[1])
                       /\ NextRow
                       /\ UNCHANGED exc
    /\ AfterFrame

load_comments_row ==
    /\ pc = "loop"
    /\ Current = "comments"
    /\ i <= nrows
    /\ \E r \in Draw(CommentRows) :
          /\ Yield(r)
          /\ IF ~Has(user_uid_map, r.a) \/ ~Has(post_uid_map, r.b) \/ ~r.num
                THEN SkipRow
                ELSE CreateMutation(
                        Node("Comment", FALSE, user_uid_map[r.a], post_uid_map[r.b]))

load_comments_after ==
    /\ pc = "after"
    /\ Current = "comments"
    /\ exc' = ""
    /\ uid_map' =
          IF exc = "" /\ assigned # << >>
             THEN Put(uid_map, i, assigned[1])
             ELSE uid_map
    /\ NextRow
    /\ AfterFrame

(***************************************************************************)
(* The relationship loaders: a KeyError of either lookup and any exception *)
(* of _create_mutation are logged inside the loop.                         *)
(***************************************************************************)

\* follow_data, member_data, hashtag_data, like_data of a row r.
\* Mutant: follower and followed exchanged.
FollowDataSwapped(r) == Edge(user_uid_map[r.b], "follows", user_uid_map[r.a])

FollowData(r) == Edge(user_uid_map[r.a], "follows", user_uid_map[r.b])

MemberData(r) == Edge(community_uid_map[r.a], "members", user_uid_map[r.b])

HashtagData(r) == Edge(post_uid_map[r.a], "hashtags", hashtag_uid_map[r.b])

LikeData(r) == Edge(post_uid_map[r.a], "likedBy", user_uid_map[r.b])

load_follows_row ==
    /\ pc = "loop"
    /\ Current = "user_follows"
    /\ i <= nrows
    /\ \E r \in Draw(EdgeRows) :
          /\ Yield(r)
          /\ IF Has(user_uid_map, r.a) /\ Has(user_uid_map, r.b)
                THEN CreateMutation(FollowData(r))
                ELSE SkipRow

load_community_members_row ==
    /\ pc = "loop"
    /\ Current = "community_members"
    /\ i <= nrows
    /\ \E r \in Draw(EdgeRows) :
          /\ Yield(r)
          /\ IF Has(community_uid_map, r.a) /\ Has(user_uid_map, r.b)
                THEN CreateMutation(MemberData(r))
                ELSE SkipRow

load_post_hashtags_row ==
    /\ pc = "loop"
    /\ Current = "post_hashtags"
    /\ i <= nrows
    /\ \E r \in Draw(EdgeRows) :
          /\ Yield(r)
          /\ IF Has(post_uid_map, r.a) /\ Has(hashtag_uid_map, r.b)
                THEN CreateMutation(HashtagData(r))
                ELSE SkipRow

\* Mutant: the KeyError of a missing mapping is not caught in the loop.
load_post_likes_row_uncaught ==
    /\ pc = "loop"
    /\ Current = "post_likes"
    /\ i <= nrows
    /\ \E r \in Draw(EdgeRows) :
          /\ Yield(r)
          /\ IF Has(post_uid_map, r.a) /\ Has(user_uid_map, r.b)
                THEN CreateMutation(LikeData(r))
                ELSE Raise("KeyError") /\ UNCHANGED data

load_post_likes_row ==
    /\ pc = "loop"
    /\ Current = "post_likes"
    /\ i <= nrows
    /\ \E r \in Draw(EdgeRows) :
          /\ Yield(r)
          /\ IF Has(post_uid_map, r.a) /\ Has(user_uid_map, r.b)
                THEN CreateMutation(LikeData(r))
                ELSE SkipRow

\* except Exception of the four relationship loops: log, next row.
load_relationship_after ==
    /\ pc = "after"
    /\ Current \in RelationshipFiles
    /\ exc' = ""
    /\ NextRow
    /\ UNCHANGED uid_map
    /\ AfterFrame

(***************************************************************************)
(* load_data: a loader returns, its mapping is stored, the next is called. *)
(***************************************************************************)
load_data_next ==
    /\ pc = "loop"
    /\ i > nrows
    /\ user_uid_map' = IF Current = "user" THEN uid_map ELSE user_uid_map
    /\ community_uid_map' = IF Current = "communities" THEN uid_map ELSE community_uid_map
    /\ post_uid_map' = IF Current = "post" THEN uid_map ELSE post_uid_map
    /\ hashtag_uid_map' = IF Current = "hashtags" THEN uid_map ELSE hashtag_uid_map
    /\ comments_map' = IF Current = "comments" THEN uid_map ELSE comments_map
    /\ IF file < Len(Files)
          THEN file' = file + 1 /\ pc' = "read"
          ELSE file' = file /\ pc' = "done"
    /\ returned' = Append(returned, Current)
    /\ uid_map' = NoMap
    /\ nrows' = 0
    /\ i' = 1
    /\ row' = NoRow
    /\ data' = NoData
    /\ assigned' = << >>
    /\ steps' = << >>
    /\ sent' = << >>
    /\ outcome' = ""
    /\ created' = NoMap
    /\ UNCHANGED << txn, exc, service, quota, started, unread, shell, requests >>

Next ==
    \/ read_csv
    \/ create_mutation_begin
    \/ txn_mutate
    \/ txn_commit
    \/ txn_discard
    \/ load_users_row
    \/ load_users_after
    \/ load_communities_row
    \/ load_communities_after
    \/ load_posts_row
    \/ load_posts_after
    \/ load_hashtags_row
    \/ load_hashtags_after
    \/ load_comments_row
    \/ load_comments_after
    \/ load_follows_row
    \/ load_community_members_row
    \/ load_post_hashtags_row
    \/ load_post_likes_row
    \/ load_relationship_after
    \/ load_data_next

Spec == Init /\ [][Next]_vars

(***************************************************************************)
(* client.py: main() creates the schema and then loops over the menu; the  *)
(* only handler is the except Exception around the call of main().         *)
(***************************************************************************)

loader ==
    << pc, file, nrows, i, row, uid_map, maps, call, quota, history, requests >>

\* The uids of the nodes in the graph, and the uids the mappings hold.
NodeUids == { o.uid : o \in { n \in graph : n.type # "" } }

MappedUids ==
    Range(user_uid_map) \cup Range(community_uid_map) \cup Range(post_uid_map)
       \cup Range(hashtag_uid_map) \cup Range(comments_map)

\* client_stub, client, model.create_schema(client): the first call of the service.
main_start ==
    /\ proc = "start"
    /\ \/ /\ faulty
          /\ exc' = "ServiceError"
          /\ proc' = "failed_start"
       \/ /\ proc' = "menu"
          /\ UNCHANGED exc
    /\ UNCHANGED << loader, service, option, tape, faulty, runs, prev >>

\* print_menu(); option = int(input('Enter your choice: ')).
main_input ==
    /\ proc = "menu"
    /\ \/ /\ exc' = "ValueError"
          /\ proc' = "aborted"
          /\ UNCHANGED option
       \/ \E o \in 1..5 :
             /\ o = 1 => runs < MaxRuns
             /\ option' = o
             /\ proc' = "chosen"
             /\ UNCHANGED exc
    /\ UNCHANGED << loader, service, tape, faulty, runs, prev >>

\* option 1, model.create_data: a new DGraphCSVLoader and its load_data("data").
create_data ==
    /\ proc = "chosen"
    /\ option = 1
    /\ proc' = "create_data"
    /\ runs' = runs + 1
    /\ pc' = "read"
    /\ file' = 1
    /\ nrows' = 0
    /\ i' = 1
    /\ row' = NoRow
    /\ uid_map' = NoMap
    /\ user_uid_map' = NoMap
    /\ community_uid_map' = NoMap
    /\ post_uid_map' = NoMap
    /\ hashtag_uid_map' = NoMap
    /\ comments_map' = NoMap
    /\ data' = NoData
    /\ assigned' = << >>
    /\ steps' = << >>
    /\ sent' = << >>
    /\ outcome' = ""
    /\ created' = NoMap
    /\ started' = << >>
    /\ returned' = << >>
    /\ unread' = {}
    /\ requests' = 0
    /\ UNCHANGED << txn, exc, service, quota, option, tape, faulty, prev >>

\* load_data has returned: back at the head of the menu loop.
create_data_return ==
    /\ proc = "create_data"
    /\ pc = "done"
    /\ pc' = "idle"
    /\ proc' = "menu"
    /\ option' = 0
    /\ prev' = [ nodes |-> NodeUids, uids |-> MappedUids, requests |-> requests ]
    /\ UNCHANGED << file, nrows, i, row, uid_map, maps, call, quota, history, requests,
                    exc, service, tape, faulty, runs >>

\* load_data has raised: nothing in main catches it, main ends, the handler
\* around main() prints the error and the process is over.
create_data_raise ==
    /\ proc = "create_data"
    /\ pc = "raised"
    /\ proc' = "aborted"
    /\ UNCHANGED << loader, exc, service, option, tape, faulty, runs, prev >>

\* option 2, query_menu: int(input()) and communities[opc] are outside any
\* try; the four queries of model.py catch what their transaction raises.
query_menu ==
    /\ proc = "chosen"
    /\ option = 2
    /\ \/ /\ exc' = "ValueError"
          /\ proc' = "aborted"
          /\ UNCHANGED option
       \/ /\ proc' = "menu"
          /\ option' = 0
          /\ UNCHANGED exc
    /\ UNCHANGED << loader, service, tape, faulty, runs, prev >>

\* option 3, model.delete_condition(client): model.py defines no such function.
delete_condition ==
    /\ proc = "chosen"
    /\ option = 3
    /\ exc' = "AttributeError"
    /\ proc' = "aborted"
    /\ UNCHANGED << loader, service, option, tape, faulty, runs, prev >>

\* option 4, model.drop_data: client.alter(drop_all=True).
drop_data ==
    /\ proc = "chosen"
    /\ option = 4
    /\ \/ /\ faulty
          /\ exc' = "ServiceError"
          /\ proc' = "aborted"
          /\ UNCHANGED << graph, option, prev >>
       \/ /\ graph' = {}
          /\ prev' = NoPrev
          /\ proc' = "menu"
          /\ option' = 0
          /\ UNCHANGED exc
    /\ UNCHANGED << loader, nextUid, tape, faulty, runs >>

\* option 5: model.drop_data, close_client_stub, exit(0).
exit_program ==
    /\ proc = "chosen"
    /\ option = 5
    /\ \/ /\ faulty
          /\ exc' = "ServiceError"
          /\ proc' = "aborted"
          /\ UNCHANGED << graph, prev >>
       \/ /\ graph' = {}
          /\ prev' = NoPrev
          /\ proc' = "exited"
          /\ UNCHANGED exc
    /\ UNCHANGED << loader, nextUid, option, tape, faulty, runs >>

(***************************************************************************)
(* The data directories given in advance.                                  *)
(***************************************************************************)

File(readable, rows) == [ readable |-> readable, rows |-> rows ]

NoFile == File(TRUE, << >>)

\* A location cell that parses, and the cells that are present and do not.
GoodLoc == Loc(FALSE, TRUE, << TRUE, TRUE >>)

InvalidLocations == { l \in Locations : ~l.na /\ ParseLocation(l) # "ok" }

\* The cells the other rows of the column may hold next to the cell l: a
\* column is read as floats only when none of its cells is a string.
Beside(l) == IF l.str THEN { GoodLoc, NoLoc } ELSE { NoLoc }

\* Three users of which the p-th has the invalid location l, two posts of
\* which the q-th has an author that is no user, the other the author a,
\* one follow row between the users f and g; no other rows.
EndToEnd(p, l, o, q, a, f, g) ==
    << File(TRUE, [ k \in 1..3 |-> Row(0, 0, TRUE, IF k = p THEN l ELSE o) ]),
       NoFile,
       File(TRUE, [ k \in 1..2 |-> Row(IF k = q THEN 4 ELSE a, 0, TRUE, NoLoc) ]),
       NoFile,
       NoFile,
       File(TRUE, << Row(f, g, TRUE, NoLoc) >>),
       NoFile,
       NoFile,
       NoFile >>

EndToEndDirs ==
    { EndToEnd(p, l, o, q, a, 1, 2) :
         p \in 1..3, l \in InvalidLocations, o \in { GoodLoc, NoLoc },
         q \in 1..2, a \in 1..3 }

IsEndToEnd(d) ==
    /\ d \in EndToEndDirs
    /\ \E k \in 1..3 : d[1].rows[k].loc \in InvalidLocations
                          /\ \A j \in (1..3) \ { k } : d[1].rows[j].loc \in Beside(d[1].rows[k].loc)

\* One row in every file, each naming the first row of the files it refers
\* to; and the same directory with its k-th file missing.
FullDir ==
    << File(TRUE, << Row(0, 0, TRUE, GoodLoc) >>),
       File(TRUE, << Row(0, 0, TRUE, NoLoc) >>),
       File(TRUE, << Row(1, 0, TRUE, NoLoc) >>),
       File(TRUE, << Row(0, 0, TRUE, NoLoc) >>),
       File(TRUE, << Row(1, 1, TRUE, NoLoc) >>),
       File(TRUE, << Row(1, 1, TRUE, NoLoc) >>),
       File(TRUE, << Row(1, 1, TRUE, NoLoc) >>),
       File(TRUE, << Row(1, 1, TRUE, NoLoc) >>),
       File(TRUE, << Row(1, 1, TRUE, NoLoc) >>) >>

Without(k) == [ FullDir EXCEPT ![k].readable = FALSE ]

SmallDirs == { FullDir } \cup { Without(k) : k \in 1..Len(Files) }

DataDirs == { d \in EndToEndDirs : IsEndToEnd(d) } \cup SmallDirs

\* python client.py: nothing has run yet.  A service that rejects calls is
\* followed over the one-row directories only.
InitShell ==
    /\ proc = "start"
    /\ option = 0
    /\ faulty \in BOOLEAN
    /\ tape \in IF faulty THEN SmallDirs ELSE DataDirs
    /\ runs = 0
    /\ requests = 0
    /\ prev = NoPrev
    /\ pc = "idle"
    /\ file = 1
    /\ nrows = 0
    /\ i = 1
    /\ row = NoRow
    /\ uid_map = NoMap
    /\ user_uid_map = NoMap
    /\ community_uid_map = NoMap
    /\ post_uid_map = NoMap
    /\ hashtag_uid_map = NoMap
    /\ comments_map = NoMap
    /\ data = NoData
    /\ txn = "none"
    /\ assigned = << >>
    /\ exc = ""
    /\ nextUid = 1
    /\ graph = {}
    /\ quota = MaxRows
    /\ steps = << >>
    /\ sent = << >>
    /\ outcome = ""
    /\ created = NoMap
    /\ started = << >>
    /\ returned = << >>
    /\ unread = {}

NextShell ==
    \/ main_start
    \/ main_input
    \/ create_data
    \/ create_data_return
    \/ create_data_raise
    \/ query_menu
    \/ delete_condition
    \/ drop_data
    \/ exit_program
    \/ read_csv
    \/ create_mutation_begin
    \/ txn_mutate
    \/ txn_commit
    \/ txn_discard
    \/ load_users_row
    \/ load_users_after
    \/ load_communities_row
    \/ load_communities_after
    \/ load_posts_row
    \/ load_posts_after
    \/ load_hashtags_row
    \/ load_hashtags_after
    \/ load_comments_row
    \/ load_comments_after
    \/ load_follows_row
    \/ load_community_members_row
    \/ load_post_hashtags_row
    \/ load_post_likes_row
    \/ load_relationship_after
    \/ load_data_next

SpecShell == InitShell /\ [][NextShell]_vars

(***************************************************************************)
(* Vocabulary of the properties.                                           *)
(***************************************************************************)

\* _create_mutation is running for the current row.
InCall == pc \in { "txn", "mutate", "commit", "discard", "after" }

\* The loop body has ended for the current row.
RowDone == (pc = "loop" /\ i > 1) \/ (pc = "raised" /\ exc # "IOError")

\* load_data has returned or raised.
Ended == pc \in { "done", "raised" }

\* Both endpoint keys of relationship row r of file f are in their mappings.
Resolves(f, r) ==
    CASE f = "user_follows" -> r.a \in DOMAIN user_uid_map /\ r.b \in DOMAIN user_uid_map
      [] f = "community_members" ->
            r.a \in DOMAIN community_uid_map /\ r.b \in DOMAIN user_uid_map
      [] f = "post_hashtags" ->
            r.a \in DOMAIN post_uid_map /\ r.b \in DOMAIN hashtag_uid_map
      [] f = "post_likes" -> r.a \in DOMAIN post_uid_map /\ r.b \in DOMAIN user_uid_map
      [] OTHER -> FALSE

\* The request the specification asks for: owner, predicate, target.
Wanted(f, r) ==
    CASE f = "user_follows" ->
            [ owner |-> user_uid_map[r.a], pred |-> "follows", target |-> user_uid_map[r.b] ]
      [] f = "community_members" ->
            [ owner |-> community_uid_map[r.a], pred |-> "members",
              target |-> user_uid_map[r.b] ]
      [] f = "post_hashtags" ->
            [ owner |-> post_uid_map[r.a], pred |-> "hashtags",
              target |-> hashtag_uid_map[r.b] ]
      [] f = "post_likes" ->
            [ owner |-> post_uid_map[r.a], pred |-> "likedBy", target |-> user_uid_map[r.b] ]

IsRequestFor(d, w) ==
    /\ d.type = ""
    /\ d.uid = w.owner
    /\ d.pred = w.pred
    /\ d.target = w.target

\* C1: a relationship row whose two endpoint keys are in their mappings gets
\* exactly one mutate request, and that request names the owner uid and the
\* target uid the mappings hold for the two keys, under the predicate of the
\* file (follows, members, hashtags, likedBy); never a second request.
C1_OneEdgeRequestPerResolvedRow ==
    (Current \in RelationshipFiles /\ Resolves(Current, row)) =>
        /\ InCall \/ RowDone
        /\ Len(sent) <= 1
        /\ (pc \in { "commit", "discard", "after" } \/ RowDone) =>
              /\ Len(sent) = 1
              /\ IsRequestFor(sent[1], Wanted(Current, row))

C1_Witness ==
    /\ Current = "user_follows"
    /\ RowDone
    /\ Resolves(Current, row)
    /\ row.a # row.b
    /\ Len(sent) = 1
    /\ outcome = "committed"

\* C2: a relationship row with an endpoint key missing from its mapping starts
\* no transaction and sends no request; the row is skipped and the loop goes
\* on to the next row without raising.
C2_MissingEndpointSkipsRow ==
    (Current \in RelationshipFiles /\ row # NoRow /\ ~Resolves(Current, row)) =>
        /\ pc = "loop"
        /\ i > 1
        /\ steps = << >>
        /\ sent = << >>
        /\ txn = "none"
        /\ exc = ""

C2_Witness ==
    /\ Current = "post_likes"
    /\ i = 3
    /\ pc = "loop"
    /\ ~Resolves(Current, row)
    /\ row.a \in DOMAIN post_uid_map

Started(f) == \E k \in 1..Len(started) : started[k] = f

Returned(f) == \E k \in 1..Len(returned) : returned[k] = f

LastStarted == started[Len(started)]

\* C3 as stated: Users, Communities and Hashtags are loaded before Posts,
\* Posts before Comments, and the relationship loads run only after the five
\* entity loads have returned.
C3_Original ==
    /\ Started("post") =>
          Returned("user") /\ Returned("communities") /\ Returned("hashtags")
    /\ Started("comments") => Returned("post")
    /\ \A f \in RelationshipFiles : Started(f) => \A e \in EntityFiles : Returned(e)

\* C3 amended: the entity loads run in the order Users, Communities, Posts,
\* Hashtags, Comments, each after the one before it has returned (Hashtags
\* after Posts, not before), and the relationship loads run only after the
\* five entity loads have returned.
C3_LoadOrder ==
    /\ Started("communities") => Returned("user")
    /\ Started("post") => Returned("communities")
    /\ Started("hashtags") => Returned("post")
    /\ Started("comments") => Returned("hashtags")
    /\ \A f \in RelationshipFiles : Started(f) => \A e \in EntityFiles : Returned(e)

C3_Witness ==
    /\ Current = "post"
    /\ pc = "commit"
    /\ ~Started("hashtags")
    /\ Returned("communities")

\* C4 as stated: once the relationship loads have begun, every relationship
\* file is attempted before load_data ends, whatever failed in an earlier one.
C4_Original ==
    (Ended /\ \E f \in RelationshipFiles : Started(f)) =>
        \A f \in RelationshipFiles : Started(f)

\* C4 amended: failures of the rows of a relationship file (a missing key, a
\* rejected mutate or commit) do not keep load_data from running every later
\* relationship file to its end; a relationship file that cannot be read makes
\* load_data raise at once, and no later relationship file is attempted.
C4_RelationshipFileFailure ==
    /\ \A f \in unread \cap RelationshipFiles :
          /\ pc = "raised"
          /\ Current = f
          /\ LastStarted = f
    /\ (Ended /\ unread = {} /\ \E f \in RelationshipFiles : Started(f)) =>
          /\ pc = "done"
          /\ \A f \in RelationshipFiles : Returned(f)

C4_Witness ==
    /\ pc = "raised"
    /\ "user_follows" \in unread
    /\ ~Started("community_members")

\* C5: when an entity file cannot be read, load_data raises: no later entity
\* load and no relationship load is called, the service gets no further
\* request, and the caller of load_data gets the exception.
C5_EntityReadFailureAborts ==
    /\ [](\A f \in unread \cap EntityFiles :
             /\ pc = "raised"
             /\ exc = "IOError"
             /\ Current = f
             /\ LastStarted = f
             /\ txn = "none")
    /\ [][pc = "raised" => UNCHANGED vars]_vars

C5_Witness ==
    /\ pc = "raised"
    /\ "post" \in unread
    /\ graph # {}
    /\ ~Started("hashtags")

\* C6 as stated: in every entity loader a row whose required numeric field
\* does not parse is skipped: nothing is sent for it, the loop goes on to the
\* next row and the load does not raise.
C6_Original ==
    (Current \in EntityFiles /\ (InCall \/ RowDone) /\ ~row.num) =>
        /\ pc = "loop"
        /\ sent = << >>
        /\ steps = << >>

\* The entries of the mappings of the run: << mapping, << key, uid >> >>.
EntriesOf(m) == { << k, m[k] >> : k \in DOMAIN m }

AllEntries ==
    { << 0, e >> : e \in EntriesOf(uid_map) } \cup
    { << 1, e >> : e \in EntriesOf(user_uid_map) } \cup
    { << 2, e >> : e \in EntriesOf(community_uid_map) } \cup
    { << 3, e >> : e \in EntriesOf(post_uid_map) } \cup
    { << 4, e >> : e \in EntriesOf(hashtag_uid_map) } \cup
    { << 5, e >> : e \in EntriesOf(comments_map) }

\* C7: between two rows of an entity load, and so when the load returns, the
\* mapping holds exactly the keys of the rows whose node was created and
\* committed without error, each with the uid the service assigned to that
\* row; every uid in a mapping was handed out by the service, and no uid is
\* held twice by the mappings of the run.
C7_MappingIsCreatedRows ==
    /\ (Current \in EntityFiles /\ pc = "loop") => uid_map = created
    /\ \A x \in AllEntries : x[2][2] \in 1..(nextUid - 1)
    /\ \A x, y \in AllEntries : x[2][2] = y[2][2] => x = y

C7_Witness ==
    /\ Current = "post"
    /\ pc = "loop"
    /\ i > nrows
    /\ nrows = 2
    /\ DOMAIN uid_map = { 2 }
    /\ user_uid_map # NoMap

\* C8: a Post request is made only for a row whose author key is in the User
\* mapping, with that user's uid as author; a Comment request only for a row
\* whose author key is in the User mapping and whose post key is in the Post
\* mapping; and the Posts load run with an empty User mapping sends nothing,
\* skips every row, returns an empty mapping and does not raise.
C8_ReferencesResolveOrRowSkipped ==
    /\ (Current = "post" /\ InCall) =>
          /\ row.a \in DOMAIN user_uid_map
          /\ data.type = "Post"
          /\ data.author = user_uid_map[row.a]
    /\ (Current = "comments" /\ InCall) =>
          /\ row.a \in DOMAIN user_uid_map
          /\ row.b \in DOMAIN post_uid_map
          /\ data.type = "Comment"
          /\ data.author = user_uid_map[row.a]
          /\ data.post = post_uid_map[row.b]
    /\ \A o \in graph :
          /\ o.type = "Post" => o.author \in Range(user_uid_map)
          /\ o.type = "Comment" =>
                o.author \in Range(user_uid_map) /\ o.post \in Range(post_uid_map)
    /\ (Current = "post" /\ user_uid_map = NoMap /\ pc # "read" /\ "post" \notin unread) =>
          /\ pc = "loop"
          /\ uid_map = NoMap
          /\ sent = << >>
          /\ steps = << >>
          /\ exc = ""
    /\ (Returned("post") /\ user_uid_map = NoMap) => post_uid_map = NoMap

C8_Witness ==
    /\ Current = "post"
    /\ user_uid_map = NoMap
    /\ pc = "loop"
    /\ nrows = 2
    /\ i > nrows
    /\ ~row.num

\* C9 as stated: a mutate or commit the service rejects ends the load of the
\* file and the exception reaches the caller of the loader.
C9_Original ==
    (RowDone /\ outcome = "rejected") => (pc = "raised" /\ exc = "ServiceError")

\* C9 amended: a rejected mutate or commit ends the load of the file, and
\* reaches the caller, only in the Communities and Hashtags loads; in the
\* Users, Posts, Comments and relationship loads it is caught in the loop: the
\* row gets no second request and no mapping entry, and the loop goes on.
C9_ServiceFailurePerLoader ==
    (RowDone /\ outcome = "rejected") =>
        IF Current \in { "communities", "hashtags" }
           THEN pc = "raised" /\ exc = "ServiceError"
           ELSE /\ pc = "loop"
                /\ exc = ""
                /\ (i - 1) \notin DOMAIN uid_map
                /\ Len(sent) = 1

C9_Witness ==
    /\ Current = "user"
    /\ pc = "loop"
    /\ outcome = "rejected"
    /\ steps = << "begin", "mutate", "commit", "discard" >>
    /\ i <= nrows

\* C10 as stated: a user row whose location cell is present and malformed, in
\* whatever way, still gets exactly one User node, without location, and its
\* key enters the mapping; location is sent only when present and well-formed.
C10_Original ==
    /\ (/\ Current = "user"
        /\ RowDone
        /\ row.num
        /\ ~row.loc.na
        /\ ParseLocation(row.loc) # "ok"
        /\ outcome # "rejected") =>
          /\ sent = << Node("User", FALSE, 0, 0) >>
          /\ outcome = "committed"
          /\ (i - 1) \in DOMAIN uid_map
    /\ (Current = "user" /\ sent # << >> /\ sent[1].loc) =>
          (~row.loc.na /\ ParseLocation(row.loc) = "ok")

\* The part of C10 the code keeps: a location string that does not split into
\* two numbers (wrong number of components, a component that is no number).
C10_MalformedStringOmitted ==
    (/\ Current = "user"
     /\ RowDone
     /\ row.num
     /\ ~row.loc.na
     /\ row.loc.str
     /\ ParseLocation(row.loc) # "ok"
     /\ outcome # "rejected") =>
        /\ sent = << Node("User", FALSE, 0, 0) >>
        /\ outcome = "committed"
        /\ (i - 1) \in DOMAIN uid_map

\* The calls a row's transaction may have made so far.
TxnCalls ==
    { << >>,
      << "begin" >>,
      << "begin", "mutate" >>,
      << "begin", "mutate", "discard" >>,
      << "begin", "mutate", "commit" >>,
      << "begin", "mutate", "commit", "discard" >> }

\* C11: a row makes at most one transaction, whose calls are begin, mutate,
\* commit in that order, with no second mutate after a failure; a transaction
\* that was begun is discarded before the loop body goes on, also after a
\* rejected mutate or commit, so none is open when the next one begins, none
\* between two rows and none when load_data has returned or raised.
C11_OneTransactionPerRowAlwaysDiscarded ==
    /\ steps \in TxnCalls
    /\ Len(sent) <= 1
    /\ pc \notin { "mutate", "commit", "discard" } => txn = "none"
    /\ pc \in { "mutate", "commit", "discard" } => txn # "none"
    /\ (pc = "after" \/ (RowDone /\ steps # << >>)) => steps[Len(steps)] = "discard"
    /\ outcome = "rejected" => steps[Len(steps)] \in { "mutate", "commit", "discard" }

C11_Witness ==
    /\ pc = "raised"
    /\ exc = "ServiceError"
    /\ steps = << "begin", "mutate", "discard" >>
    /\ txn = "none"

\* The uids of the committed nodes of a type.
Committed(type) == { o.uid : o \in { n \in graph : n.type = type } }

\* C15: every uid an entity mapping holds is the uid of a node of that type
\* whose transaction was committed (a row whose mutate or commit was rejected
\* gets no entry), so every Post, Comment and edge request, which takes its
\* uids from the mappings, names committed nodes only.
C15_MappingsHoldCommittedNodes ==
    /\ Range(user_uid_map) \subseteq Committed("User")
    /\ Range(community_uid_map) \subseteq Committed("Community")
    /\ Range(post_uid_map) \subseteq Committed("Post")
    /\ Range(hashtag_uid_map) \subseteq Committed("Hashtag")
    /\ Range(comments_map) \subseteq Committed("Comment")
    /\ Current \in EntityFiles =>
          Range(uid_map) \subseteq
             Committed(CASE Current = "user" -> "User"
                         [] Current = "communities" -> "Community"
                         [] Current = "post" -> "Post"
                         [] Current = "hashtags" -> "Hashtag"
                         [] Current = "comments" -> "Comment")
    /\ outcome = "rejected" => i \notin DOMAIN uid_map
    /\ \A k \in 1..Len(sent) :
          /\ sent[k].type = "Post" => sent[k].author \in Committed("User")
          /\ sent[k].type = "Comment" =>
                sent[k].author \in Committed("User") /\ sent[k].post \in Committed("Post")
          /\ sent[k].pred = "follows" =>
                sent[k].uid \in Committed("User") /\ sent[k].target \in Committed("User")
          /\ sent[k].pred = "members" =>
                sent[k].uid \in Committed("Community") /\ sent[k].target \in Committed("User")
          /\ sent[k].pred = "hashtags" =>
                sent[k].uid \in Committed("Post") /\ sent[k].target \in Committed("Hashtag")
          /\ sent[k].pred = "likedBy" =>
                sent[k].uid \in Committed("Post") /\ sent[k].target \in Committed("User")

C15_Witness ==
    /\ Current = "post"
    /\ pc = "mutate"
    /\ DOMAIN user_uid_map = { 2 }
    /\ nextUid = 3
    /\ data.author = user_uid_map[2]

\* C12 as the specification states it: an operation chosen from the menu
\* (create data, a query, delete by threshold, drop all) that fails with an
\* unhandled error ends only that operation, never the process; the process
\* ends on its own only when the service fails at startup.
C12_Original == ~(proc = "aborted" /\ option \in 1..4)

\* The nodes and the edges of predicate p that this load_data has put in the graph.
NewNodes(type) == { n \in graph : n.type = type /\ n.uid \notin prev.nodes }

NewEdges(p) == { e \in graph : e.type = "" /\ e.pred = p /\ e.uid \notin prev.nodes }

\* load_data has returned to a service that rejected nothing, on the
\* end-to-end directory.
EndToEndDone ==
    /\ proc = "create_data"
    /\ pc = "done"
    /\ ~faulty
    /\ tape \in EndToEndDirs

\* What the specification expects of the end-to-end directory.
EndToEndResult ==
    /\ Cardinality(NewNodes("User")) = 3
    /\ \E k \in 1..3 :
          /\ tape[1].rows[k].loc \in InvalidLocations
          /\ k \in DOMAIN user_uid_map
          /\ \E n \in NewNodes("User") : n.uid = user_uid_map[k] /\ ~n.loc
    /\ Cardinality(NewNodes("Post")) = 1
    /\ Cardinality(DOMAIN post_uid_map) = 1
    /\ requests = 4
    /\ Cardinality(NewEdges("follows")) = 1

\* C13 as the specification states it: 3 User rows of which one has an
\* invalid location, 2 Post rows of which one names an author that is no
\* user, 1 valid follow row, a service that rejects nothing: load_data ends
\* with 3 User nodes (the one of the invalid location without location),
\* 1 Post node, the other Post row skipped without a request, and 1 follows
\* edge.
C13_Original == EndToEndDone => EndToEndResult

\* C13 where the invalid location is a string ("x,y", "45.5", "1,2,3"): the
\* expected result is what load_data ends with.
C13_EndToEndStringLocation ==
    (EndToEndDone /\ \A k \in 1..3 : tape[1].rows[k].loc.na \/ tape[1].rows[k].loc.str)
       => EndToEndResult

\* The second load_data of a session has returned; the service rejected
\* nothing and the graph was not dropped since the first one returned.
SecondRunDone ==
    /\ proc = "create_data"
    /\ pc = "done"
    /\ runs = 2
    /\ ~faulty
    /\ prev # NoPrev

\* C14: a second load_data on the same directory against the same graph
\* sends as many node-creation requests as the first (one per row that gets
\* a mapping entry), its mappings hold no uid of the first run's mappings or
\* nodes, the nodes of the first run are still there, and the graph holds
\* twice as many nodes as after the first run.
C14_SecondRunCreatesDisjointNodes ==
    SecondRunDone =>
       /\ requests = prev.requests
       /\ requests =
             Cardinality(DOMAIN user_uid_map) + Cardinality(DOMAIN community_uid_map)
                + Cardinality(DOMAIN post_uid_map) + Cardinality(DOMAIN hashtag_uid_map)
                + Cardinality(DOMAIN comments_map)
       /\ Cardinality(MappedUids) = requests
       /\ MappedUids \cap prev.uids = {}
       /\ MappedUids \cap prev.nodes = {}
       /\ prev.nodes \subseteq NodeUids
       /\ NodeUids = prev.nodes \cup MappedUids
       /\ Cardinality(NodeUids) = 2 * Cardinality(prev.nodes)

C14_Witness ==
    /\ SecondRunDone
    /\ tape = FullDir
    /\ requests = 5
    /\ Cardinality(NodeUids) = 10

====
